---- MODULE Spec2Model ----
(***************************************************************************)
(* HubSpot CRM connector (server.js): the OAuth token lifecycle.           *)
(*                                                                         *)
(* One process-wide token slot (hubspotTokens), an optional copy of it in  *)
(* a file (hubspot-tokens.json), and the Express handlers that read and    *)
(* write them.  Node runs a handler without interruption from one await to *)
(* the next, so every action below is one such segment: the code from the  *)
(* arrival of a request (or of an upstream answer) up to the next await or *)
(* the response.  Upstream (the HubSpot token and resource endpoints) is   *)
(* the environment: its answers are chosen nondeterministically.           *)
(***************************************************************************)
EXTENDS Integers, FiniteSets, TLC

(***************************************************************************)
(* Bounds of the model.                                                    *)
(***************************************************************************)
\* how many times the clock advances
MaxTicks == 2
\* the highest token number upstream mints (number 1 is the pair a previous
\* run may have left in the file)
MaxIssued == 2

\* the request slots: two requests can be in progress at the same time
Reqs == {1, 2}

(***************************************************************************)
(* JavaScript values.  Numbers are themselves; the three non-numbers the   *)
(* code can meet in a token field are coded below zero.                    *)
(***************************************************************************)
\* an absent property reads as undefined
Undef == -1
\* Date.now() + undefined * 1000
NaN == -2
\* JSON.stringify writes NaN as null
JNull == -3

\* !!v for the values above: undefined, NaN, null and 0 are falsy
Truthy(v) == v > 0

\* granularity of the clock: 3 minutes, in milliseconds (Date.now() counts
\* milliseconds)
MsPerTick == 3 * 60 * 1000
\* Date.now() when the process starts
StartTime == 10 * MsPerTick
\* 5 * 60 * 1000: the safety margin of the proactive expiry check
RefreshMargin == 5 * 60 * 1000

\* expires_in values (seconds) upstream may report; Undef: field absent
ExpiresInChoices == {120, 600, Undef}

(***************************************************************************)
(* The token object.  present = FALSE is hubspotTokens === null.           *)
(***************************************************************************)
NullTokens ==
    [present |-> FALSE, access_token |-> Undef, refresh_token |-> Undef,
     expiry_date |-> Undef, expires_in |-> Undef]

\* the file: absent, unparsable, or the JSON text of a token object
NoFile ==
    [state |-> "absent", access_token |-> Undef, refresh_token |-> Undef,
     expiry_date |-> Undef, expires_in |-> Undef]

CorruptFile ==
    [state |-> "corrupt", access_token |-> Undef, refresh_token |-> Undef,
     expiry_date |-> Undef, expires_in |-> Undef]

\* JSON.stringify of one property value: NaN becomes null, an undefined
\* property is left out (and reads back as undefined)
JsonValue(v) == IF v = NaN THEN JNull ELSE v

\* JSON.stringify(tokens, null, 2)
Stringify(t) ==
    [state |-> "json",
     access_token |-> JsonValue(t.access_token),
     refresh_token |-> JsonValue(t.refresh_token),
     expiry_date |-> JsonValue(t.expiry_date),
     expires_in |-> JsonValue(t.expires_in)]

\* JSON.parse(tokenData)
Parse(f) ==
    [present |-> TRUE, access_token |-> f.access_token,
     refresh_token |-> f.refresh_token, expiry_date |-> f.expiry_date,
     expires_in |-> f.expires_in]

\* the load at startup: only outside production, only when the file exists;
\* a JSON.parse error is caught and leaves the slot null
LoadTokens(prod, f) ==
    IF ~prod /\ f.state = "json" THEN Parse(f) ELSE NullTokens

\* the pair a previous run saved after a refresh (hence with expires_in):
\* token number 1, expiring 8 minutes after this process starts (more than
\* the margin away at the start, exactly the margin away after one tick,
\* less after two)
SavedFile ==
    [state |-> "json", access_token |-> 1, refresh_token |-> 1,
     expiry_date |-> StartTime + 8 * 60 * 1000, expires_in |-> 600]

(***************************************************************************)
(* Upstream answers, as axios delivers them.                               *)
(*   kind "ok"            a 2xx answer; the token fields are response.data *)
(*   kind "http_error"    axios throws, error.response.status = status     *)
(*   kind "network_error" axios throws, error.response is undefined        *)
(***************************************************************************)
UpstreamAnswer(k, s, a, r, e) ==
    [kind |-> k, status |-> s, access_token |-> a, refresh_token |-> r,
     expires_in |-> e]

NoAnswer == UpstreamAnswer("none", Undef, Undef, Undef, Undef)

\* 2xx answers of POST /oauth/v1/token when n is the number of the pair
\* minted: {access_token, refresh_token?, expires_in}, with refresh_token or
\* expires_in possibly left out
TokenAnswers(n) ==
    {UpstreamAnswer("ok", 200, n, r, e) :
        r \in {n, Undef}, e \in ExpiresInChoices}

\* a 2xx answer of the token endpoint without the expected fields
MalformedAnswer == UpstreamAnswer("ok", 200, Undef, Undef, Undef)

\* answers of the token endpoint that mint nothing
NoMintAnswers ==
    {MalformedAnswer,
     UpstreamAnswer("http_error", 400, Undef, Undef, Undef),
     UpstreamAnswer("network_error", Undef, Undef, Undef, Undef)}

\* answers of a GET on a resource endpoint
ResourceAnswers ==
    {UpstreamAnswer("ok", 200, Undef, Undef, Undef),
     UpstreamAnswer("http_error", 401, Undef, Undef, Undef),
     UpstreamAnswer("http_error", 500, Undef, Undef, Undef),
     UpstreamAnswer("network_error", Undef, Undef, Undef, Undef)}

(***************************************************************************)
(* Responses to the client.                                                *)
(*   status    HTTP status (302 for res.redirect)                          *)
(*   body      the error / message / action text, or the redirect target   *)
(*   authUrl   the authUrl property of the JSON body ("" when it has none) *)
(*   links     links.authenticate of the JSON body ("" when it has none)   *)
(*   upstream  error.response?.status of the upstream failure reported     *)
(***************************************************************************)
Response(s, b, a, l, u) ==
    [status |-> s, body |-> b, authUrl |-> a, links |-> l, upstream |-> u,
     hasToken |-> FALSE, isExpired |-> FALSE]

NoResponse == Response(0, "", "", "", Undef)

AuthUrl == "/auth/hubspot"
ForceAuthUrl == "/auth/hubspot?force=true"

VARIABLES
    isProduction,   \* process.env.NODE_ENV === 'production'
    fsWritable,     \* the directory of the file can be written
    hubspotTokens,  \* the token slot
    file,           \* hubspot-tokens.json
    now,            \* Date.now()
    issued,         \* the highest token number upstream has minted
    pc,             \* per request: where its handler is suspended
    op,             \* per request: the route it is in
    query,          \* per request: its query string ("", "code", "force")
    bearer,         \* per request: the Bearer credential of its last GET
    inbox,          \* per request: the upstream answer axios is delivering
    resp,           \* per request: the response sent to the client
    nTokenReq,      \* per request: POSTs it sent to the token endpoint
    nResourceReq    \* per request: GETs it sent to a resource endpoint

vars ==
    <<isProduction, fsWritable, hubspotTokens, file, now, issued, pc, op, query,
      bearer, inbox, resp, nTokenReq, nResourceReq>>

env == <<isProduction, fsWritable>>
store == <<hubspotTokens, file>>
locals == <<pc, op, query, bearer, inbox, resp, nTokenReq, nResourceReq>>

\* the outcome of fs.writeFileSync and fs.unlinkSync: TRUE, it succeeded;
\* FALSE, it threw (a read-only or ephemeral file system)
FsOutcome == fsWritable

(***************************************************************************)
(* Start of the process: the module-level code up to the token load.       *)
(***************************************************************************)
Init ==
    /\ isProduction \in BOOLEAN
    /\ fsWritable \in (IF isProduction THEN {TRUE} ELSE BOOLEAN)
    /\ file \in (IF isProduction THEN {NoFile, SavedFile}
                 ELSE {NoFile, CorruptFile, SavedFile})
    /\ hubspotTokens = LoadTokens(isProduction, file)
    /\ now = StartTime
    /\ issued = 1
    /\ pc = [p \in Reqs |-> "idle"]
    /\ op = [p \in Reqs |-> "none"]
    /\ query = [p \in Reqs |-> ""]
    /\ bearer = [p \in Reqs |-> Undef]
    /\ inbox = [p \in Reqs |-> NoAnswer]
    /\ resp = [p \in Reqs |-> NoResponse]
    /\ nTokenReq = [p \in Reqs |-> 0]
    /\ nResourceReq = [p \in Reqs |-> 0]

\* Node runs one callback at a time: while an answer is being delivered to
\* a handler, or a response is being written, nothing else happens
Quiet == \A q \in Reqs : pc[q] # "done" /\ inbox[q] = NoAnswer

\* the clock advances
Tick ==
    /\ Quiet
    /\ now < StartTime + MaxTicks * MsPerTick
    /\ now' = now + MsPerTick
    /\ UNCHANGED <<env, store, issued, locals>>

\* the same end without the response being sent
FinishSilent(p, r) ==
    /\ pc' = [pc EXCEPT ![p] = "done"]
    /\ resp' = resp

\* the handler of request p ends with response r
Finish(p, r) ==
    /\ pc' = [pc EXCEPT ![p] = "done"]
    /\ resp' = [resp EXCEPT ![p] = r]

\* request p arrives on route o with query string qs (a request takes the
\* first free slot)
Arrive(p, o, qs) ==
    /\ Quiet
    /\ pc[p] = "idle"
    /\ \A q \in Reqs : q < p => pc[q] # "idle"
    /\ op' = [op EXCEPT ![p] = o]
    /\ query' = [query EXCEPT ![p] = qs]

\* the client has its response; the slot serves the next request
Recycle(p) ==
    /\ pc[p] = "done"
    /\ pc' = [pc EXCEPT ![p] = "idle"]
    /\ op' = [op EXCEPT ![p] = "none"]
    /\ query' = [query EXCEPT ![p] = ""]
    /\ bearer' = [bearer EXCEPT ![p] = Undef]
    /\ resp' = [resp EXCEPT ![p] = NoResponse]
    /\ nTokenReq' = [nTokenReq EXCEPT ![p] = 0]
    /\ nResourceReq' = [nResourceReq EXCEPT ![p] = 0]
    /\ UNCHANGED <<env, store, now, issued, inbox>>

\* the process is restarted while no request is in progress: the module
\* level code runs again, the slot is loaded from the file as it is now
Restart ==
    /\ Quiet
    /\ \A q \in Reqs : pc[q] = "idle"
    /\ hubspotTokens' = LoadTokens(isProduction, file)
    /\ UNCHANGED <<env, file, now, issued, locals>>

\* what the token endpoint can answer now: a failure, or the next pair
TokenEndpointAnswers ==
    NoMintAnswers \cup
        (IF issued < MaxIssued THEN TokenAnswers(issued + 1) ELSE {})

\* the mint counter after answer r
Minted(r) == IF Truthy(r.access_token) THEN issued + 1 ELSE issued

\* the token endpoint answers the POST of request p
TokenEndpoint(p) ==
    /\ Quiet
    /\ pc[p] \in {"exchange", "refresh"}
    /\ \E r \in TokenEndpointAnswers :
          /\ inbox' = [inbox EXCEPT ![p] = r]
          /\ issued' = Minted(r)
    /\ UNCHANGED <<env, store, now, pc, op, query, bearer, resp,
                   nTokenReq, nResourceReq>>

\* a resource endpoint answers the GET of request p
ResourceEndpoint(p) ==
    /\ Quiet
    /\ pc[p] \in {"resource", "retry"}
    /\ \E r \in ResourceAnswers : inbox' = [inbox EXCEPT ![p] = r]
    /\ UNCHANGED <<env, store, now, issued, pc, op, query, bearer, resp,
                   nTokenReq, nResourceReq>>

\* the handler of request p resumes with the answer delivered to it
Resume(p, at) ==
    /\ pc[p] = at
    /\ inbox[p] # NoAnswer
    /\ inbox' = [inbox EXCEPT ![p] = NoAnswer]
    /\ UNCHANGED <<op, query>>

(***************************************************************************)
(* saveTokens and the deletion of the file.                                *)
(***************************************************************************)
\* the same with a write that cannot fail
saveTokensNeverFails(prod, f, t, ok) ==
    IF prod THEN f ELSE Stringify(t)

\* saveTokens(tokens): skipped in production; a failed write is caught
saveTokens(prod, f, t, ok) ==
    IF prod THEN f ELSE IF ok THEN Stringify(t) ELSE f

\* the same without the look at isProduction
unlinkTokensAnyMode(prod, f, ok) ==
    IF f.state # "absent" /\ ok THEN NoFile ELSE f

\* if (!isProduction && fs.existsSync(TOKEN_PATH)) fs.unlinkSync(TOKEN_PATH),
\* a failed delete is caught
unlinkTokens(prod, f, ok) ==
    IF ~prod /\ f.state # "absent" /\ ok THEN NoFile ELSE f

(***************************************************************************)
(* The token arithmetic of the callback and of refreshToken.               *)
(***************************************************************************)
\* the same sum with the lifetime taken for milliseconds
ExpiryDateNoScale(t, e) == IF e = Undef THEN NaN ELSE t + e

\* Date.now() + (response.data.expires_in * 1000)
ExpiryDate(t, e) == IF e = Undef THEN NaN ELSE t + e * 1000

\* the same object merged over the pair in the slot, as refreshToken does
ExchangedTokensMerged(r, t) ==
    [present |-> TRUE, access_token |-> r.access_token,
     refresh_token |-> r.refresh_token,
     expiry_date |-> ExpiryDate(t, r.expires_in),
     expires_in |-> hubspotTokens.expires_in]

\* the object the callback stores
ExchangedTokens(r, t) ==
    [present |-> TRUE, access_token |-> r.access_token,
     refresh_token |-> r.refresh_token,
     expiry_date |-> ExpiryDate(t, r.expires_in), expires_in |-> Undef]

\* the object refreshToken stores: { ...hubspotTokens, access_token,
\* refresh_token, expires_in, expiry_date }; the four properties written
\* are all the properties the object has
RefreshedTokens(tok, r, t) ==
    [present |-> TRUE, access_token |-> r.access_token,
     refresh_token |-> r.refresh_token,
     expiry_date |-> ExpiryDate(t, r.expires_in),
     expires_in |-> r.expires_in]

\* the check left out
HasAccessTokenUnchecked(tok) == TRUE

\* !hubspotTokens || !hubspotTokens.access_token, negated
HasAccessToken(tok) == tok.present /\ Truthy(tok.access_token)

\* the check left out
HasRefreshTokenUnchecked(tok) == TRUE

\* !hubspotTokens || !hubspotTokens.refresh_token, negated
HasRefreshToken(tok) == tok.present /\ Truthy(tok.refresh_token)

\* the same check without the margin: only an expired token is refreshed
NeedsRefreshNoMargin(tok, t) ==
    Truthy(tok.expiry_date) /\ t >= tok.expiry_date

\* hubspotTokens.expiry_date && Date.now() >= expiry_date - 5 * 60 * 1000
NeedsRefresh(tok, t) ==
    Truthy(tok.expiry_date) /\ t >= tok.expiry_date - RefreshMargin

\* the same check without the look at access_token
RefreshSucceededAny2xx(r) == r.kind = "ok"

\* response.data && response.data.access_token (an axios error is caught
\* and makes refreshToken return false)
RefreshSucceeded(r) == r.kind = "ok" /\ Truthy(r.access_token)

\* the same with a failed refresh emptying the slot
RefreshTailClearing(r, ok) ==
    IF RefreshSucceeded(r)
    THEN /\ hubspotTokens' = RefreshedTokens(hubspotTokens, r, now)
         /\ file' = saveTokens(isProduction, file,
                               RefreshedTokens(hubspotTokens, r, now), ok)
    ELSE hubspotTokens' = NullTokens /\ file' = file

\* refreshToken after its await: on success the slot and the file are
\* written, otherwise nothing is
RefreshTail(r, ok) ==
    IF RefreshSucceeded(r)
    THEN /\ hubspotTokens' = RefreshedTokens(hubspotTokens, r, now)
         /\ file' = saveTokens(isProduction, file,
                               RefreshedTokens(hubspotTokens, r, now), ok)
    ELSE UNCHANGED store

(***************************************************************************)
(* GET /auth/hubspot                                                       *)
(***************************************************************************)
\* the same with the query parameter ignored
ForceReauthAlways(qs) == TRUE

\* req.query.force === 'true'
ForceReauth(qs) == qs = "force"

AuthHubspot(p) ==
    /\ \E qs \in {"", "force"} : Arrive(p, "auth", qs)
    /\ IF ForceReauth(query'[p]) /\ hubspotTokens.present
       THEN /\ hubspotTokens' = NullTokens
            /\ file' = unlinkTokens(isProduction, file, FsOutcome)
       ELSE UNCHANGED store
    /\ Finish(p, Response(302, "authorize", "", "", Undef))
    /\ UNCHANGED <<env, now, issued, bearer, inbox, nTokenReq,
                   nResourceReq>>

(***************************************************************************)
(* GET /oauth/callback                                                     *)
(***************************************************************************)
\* the check left out
CodeMissingUnchecked(qs) == FALSE

\* !code, for const { code } = req.query
CodeMissing(qs) == qs # "code"

\* the handler up to its await: the 400, or the POST of the code
Callback(p) ==
    /\ \E qs \in {"", "code"} : Arrive(p, "callback", qs)
    /\ IF CodeMissing(query'[p])
       THEN /\ Finish(p, Response(400, "No authorization code provided",
                                  "", "", Undef))
            /\ UNCHANGED nTokenReq
       ELSE /\ pc' = [pc EXCEPT ![p] = "exchange"]
            /\ nTokenReq' = [nTokenReq EXCEPT ![p] = @ + 1]
            /\ UNCHANGED resp
    /\ UNCHANGED <<env, store, now, issued, bearer, inbox,
                   nResourceReq>>

\* the code after await axios.post(...): a 2xx answer is stored as it is,
\* an axios error is answered with the 500
Exchanged(p) ==
    /\ Resume(p, "exchange")
    /\ IF inbox[p].kind = "ok"
       THEN /\ hubspotTokens' = ExchangedTokens(inbox[p], now)
            /\ file' = saveTokens(isProduction, file,
                                  ExchangedTokens(inbox[p], now), FsOutcome)
            /\ Finish(p, Response(302, "/api/hubspot/contacts",
                                  "", "", Undef))
       ELSE /\ UNCHANGED store
            /\ Finish(p, Response(500, "Authentication failed",
                                  "", "", inbox[p].status))
    /\ UNCHANGED <<env, now, issued, bearer, nTokenReq,
                   nResourceReq>>

(***************************************************************************)
(* GET /auth/logout                                                        *)
(***************************************************************************)
Logout(p) ==
    /\ Arrive(p, "logout", "")
    /\ hubspotTokens' = NullTokens
    /\ file' = unlinkTokens(isProduction, file, FsOutcome)
    /\ Finish(p, Response(200, "Logged out successfully", AuthUrl, "", Undef))
    /\ UNCHANGED <<env, now, issued, bearer, inbox, nTokenReq,
                   nResourceReq>>

(***************************************************************************)
(* GET /api/hubspot/check-token                                            *)
(***************************************************************************)
\* the same test with the margin of the proactive check taken off
IsExpiredWithMargin(tok, t) ==
    IF tok.present /\ Truthy(tok.expiry_date)
    THEN t >= tok.expiry_date - RefreshMargin
    ELSE TRUE

\* hasToken && hubspotTokens.expiry_date ? Date.now() >= expiry_date : true
IsExpired(tok, t) ==
    IF tok.present /\ Truthy(tok.expiry_date) THEN t >= tok.expiry_date
    ELSE TRUE

\* hasToken ? (isExpired ? "refresh needed" : "token valid")
\*          : "authentication needed"
RecommendedAction(tok, t) ==
    IF tok.present
    THEN (IF IsExpired(tok, t) THEN "refresh needed" ELSE "token valid")
    ELSE "authentication needed"

CheckToken(p) ==
    /\ Arrive(p, "check-token", "")
    /\ Finish(p, [Response(200, RecommendedAction(hubspotTokens, now),
                           "", "", Undef)
                     EXCEPT !.hasToken = hubspotTokens.present,
                            !.isExpired = IsExpired(hubspotTokens, now)])
    /\ UNCHANGED <<env, store, now, issued, bearer, inbox,
                   nTokenReq, nResourceReq>>

(***************************************************************************)
(* GET /api/hubspot/contacts and GET /api/hubspot/lists                    *)
(***************************************************************************)
DataOps == {"contacts", "lists"}

\* 401 { error: 'Authentication required', authUrl: '/auth/hubspot' }
AuthRequired == Response(401, "Authentication required", AuthUrl, "", Undef)

\* 401 { error: 'Authentication failed', ..., authUrl: '/auth/hubspot' }
RefreshFailed == Response(401, "Authentication failed", AuthUrl, "", Undef)

\* the 500 of the catch block: contacts carries authUrl, lists carries
\* links.authenticate
UpstreamFailed(o, r) ==
    IF o = "contacts"
    THEN Response(500, "Failed to access HubSpot CRM", ForceAuthUrl, "",
                  r.status)
    ELSE Response(500, "Failed to access HubSpot lists", "", ForceAuthUrl,
                  r.status)

\* the same request with the access token read before the handler's step
SendGetStale(p, token, next) ==
    /\ bearer' = [bearer EXCEPT ![p] = hubspotTokens.access_token]
    /\ nResourceReq' = [nResourceReq EXCEPT ![p] = @ + 1]
    /\ pc' = [pc EXCEPT ![p] = next]

\* axios.get(..., { headers: { Authorization: `Bearer ${token}` } })
SendGet(p, token, next) ==
    /\ bearer' = [bearer EXCEPT ![p] = token]
    /\ nResourceReq' = [nResourceReq EXCEPT ![p] = @ + 1]
    /\ pc' = [pc EXCEPT ![p] = next]

\* axios.post('https://api.hubapi.com/oauth/v1/token', { refresh_token, ... })
SendRefresh(p) ==
    /\ nTokenReq' = [nTokenReq EXCEPT ![p] = @ + 1]
    /\ pc' = [pc EXCEPT ![p] = "refresh"]

\* the handler up to its first await
DataCall(p) ==
    /\ \E o \in DataOps : Arrive(p, o, "")
    /\ IF ~HasAccessToken(hubspotTokens)
       THEN /\ Finish(p, AuthRequired)
            /\ UNCHANGED <<bearer, nTokenReq, nResourceReq>>
       ELSE IF NeedsRefresh(hubspotTokens, now)
       THEN IF HasRefreshToken(hubspotTokens)
            THEN /\ SendRefresh(p)
                 /\ UNCHANGED <<resp, bearer, nResourceReq>>
            ELSE /\ Finish(p, RefreshFailed)
                 /\ UNCHANGED <<bearer, nTokenReq, nResourceReq>>
       ELSE /\ SendGet(p, hubspotTokens.access_token, "resource")
            /\ UNCHANGED <<resp, nTokenReq>>
    /\ UNCHANGED <<env, store, now, issued, inbox>>

\* refreshToken after its await, then the handler: the GET with the token
\* now in the slot, or the 401
DataRefreshed(p) ==
    /\ Resume(p, "refresh")
    /\ op[p] \in DataOps
    /\ RefreshTail(inbox[p], FsOutcome)
    /\ IF RefreshSucceeded(inbox[p])
       THEN /\ SendGet(p, hubspotTokens'.access_token, "resource")
            /\ UNCHANGED resp
       ELSE /\ Finish(p, RefreshFailed)
            /\ UNCHANGED <<bearer, nResourceReq>>
    /\ UNCHANGED <<env, now, issued, nTokenReq>>

\* the answer of the GET: the result, or the 500 of the catch block
DataAnswered(p) ==
    /\ Resume(p, "resource")
    /\ op[p] \in DataOps
    /\ IF inbox[p].kind = "ok"
       THEN Finish(p, Response(200, "success", "", "", Undef))
       ELSE Finish(p, UpstreamFailed(op[p], inbox[p]))
    /\ UNCHANGED <<env, store, now, issued, bearer, nTokenReq,
                   nResourceReq>>

(***************************************************************************)
(* GET /api/hubspot/debug                                                  *)
(***************************************************************************)
\* building tokenInfo throws (and the outer catch answers 500) when the
\* slot holds an object whose access_token has no substring method or
\* whose expiry_date makes new Date(...).toISOString() throw
DebugThrows(tok) ==
    tok.present
    /\ (~Truthy(tok.access_token) \/ tok.expiry_date \in {NaN, Undef})

\* res.json({ tokenInfo, apiResponse, apiError, env }); u is apiError.status
DebugReport(u) == Response(200, "debug", "", "", u)

\* the handler up to its first await
Debug(p) ==
    /\ Arrive(p, "debug", "")
    /\ IF DebugThrows(hubspotTokens)
       THEN /\ Finish(p, Response(500, "Debug endpoint error", "", "", Undef))
            /\ UNCHANGED <<bearer, nResourceReq>>
       ELSE IF HasAccessToken(hubspotTokens)
       THEN /\ SendGet(p, hubspotTokens.access_token, "resource")
            /\ UNCHANGED resp
       ELSE /\ Finish(p, DebugReport(Undef))
            /\ UNCHANGED <<bearer, nResourceReq>>
    /\ UNCHANGED <<env, store, now, issued, inbox, nTokenReq>>

\* the answer of the test call; a 401 starts refreshToken, which answers
\* false at once when there is no refresh token
DebugAnswered(p) ==
    /\ Resume(p, "resource")
    /\ op[p] = "debug"
    /\ IF inbox[p].kind = "http_error" /\ inbox[p].status = 401
          /\ HasRefreshToken(hubspotTokens)
       THEN /\ SendRefresh(p)
            /\ UNCHANGED resp
       ELSE /\ Finish(p, DebugReport(IF inbox[p].kind = "ok" THEN Undef
                                     ELSE inbox[p].status))
            /\ UNCHANGED nTokenReq
    /\ UNCHANGED <<env, store, now, issued, bearer,
                   nResourceReq>>

\* refreshToken after its await, then the retry of the test call
DebugRefreshed(p) ==
    /\ Resume(p, "refresh")
    /\ op[p] = "debug"
    /\ RefreshTail(inbox[p], FsOutcome)
    /\ IF RefreshSucceeded(inbox[p])
       THEN /\ SendGet(p, hubspotTokens'.access_token, "retry")
            /\ UNCHANGED resp
       ELSE /\ Finish(p, DebugReport(401))
            /\ UNCHANGED <<bearer, nResourceReq>>
    /\ UNCHANGED <<env, now, issued, nTokenReq>>

\* the answer of the retry
DebugRetried(p) ==
    /\ Resume(p, "retry")
    /\ Finish(p, DebugReport(401))
    /\ UNCHANGED <<env, store, now, issued, bearer, nTokenReq,
                   nResourceReq>>

(***************************************************************************)
(* The server: requests arrive, upstream answers, the clock advances.      *)
(***************************************************************************)
Next ==
    \/ Tick
    \/ Restart
    \/ \E p \in Reqs :
          \/ AuthHubspot(p)
          \/ Callback(p)
          \/ Exchanged(p)
          \/ Logout(p)
          \/ CheckToken(p)
          \/ DataCall(p)
          \/ DataRefreshed(p)
          \/ DataAnswered(p)
          \/ Debug(p)
          \/ DebugAnswered(p)
          \/ DebugRefreshed(p)
          \/ DebugRetried(p)
          \/ TokenEndpoint(p)
          \/ ResourceEndpoint(p)
          \/ Recycle(p)

Spec == Init /\ [][Next]_vars

\* the server when requests come one after the other: a request arrives
\* only after the one before it has its response, so no two handlers (and
\* no two refreshes) interleave
NextSeq ==
    \/ Tick
    \/ Restart
    \/ \E p \in {1} :
          \/ AuthHubspot(p)
          \/ Callback(p)
          \/ Exchanged(p)
          \/ Logout(p)
          \/ CheckToken(p)
          \/ DataCall(p)
          \/ DataRefreshed(p)
          \/ DataAnswered(p)
          \/ Debug(p)
          \/ DebugAnswered(p)
          \/ DebugRefreshed(p)
          \/ DebugRetried(p)
          \/ TokenEndpoint(p)
          \/ ResourceEndpoint(p)
          \/ Recycle(p)

SpecSeq == Init /\ [][NextSeq]_vars

\* the event loop and the network are fair: an upstream request that can be
\* answered again and again is answered (SF: other requests' callbacks run
\* in between), a handler whose answer has arrived resumes, and a response
\* that is written reaches the client
Fairness ==
    \A p \in Reqs :
        /\ SF_vars(TokenEndpoint(p) \/ ResourceEndpoint(p))
        /\ WF_vars(\/ Exchanged(p)
                   \/ DataRefreshed(p) \/ DataAnswered(p)
                   \/ DebugAnswered(p) \/ DebugRefreshed(p)
                   \/ DebugRetried(p)
                   \/ Recycle(p))

\* the server with that fairness
SpecLive == Init /\ [][Next]_vars /\ Fairness

(***************************************************************************)
(* Vocabulary of the properties.                                           *)
(***************************************************************************)
\* this step is the arrival of request p on a data route
DataArrives(p) == pc[p] = "idle" /\ op'[p] \in DataOps

\* the stored expiry is a time, and it is more than five minutes away
ExpiryFar(tok, t) ==
    tok.expiry_date > 0 /\ tok.expiry_date - t > 5 * 60 * 1000

\* the stored expiry is a time, and it is five minutes away or less, or past
ExpiryNear(tok, t) ==
    tok.expiry_date > 0 /\ tok.expiry_date - t <= 5 * 60 * 1000

\* this step sends a GET of request p to a resource endpoint
GetSent(p) == nResourceReq'[p] = nResourceReq[p] + 1

\* this step sends a POST of request p to the token endpoint
PostSent(p) == nTokenReq'[p] = nTokenReq[p] + 1

\* this step is the handler of request p resuming, at await w, with the
\* upstream answer delivered to it
Resumes(p, w) == pc[p] = w /\ inbox[p] # NoAnswer /\ inbox'[p] = NoAnswer

\* a refresh answer with which the refresh fails: a non-success status, a
\* network error, or a 2xx answer without access_token
RefreshAnswerFails(r) == r.kind # "ok" \/ ~(r.access_token > 0)

(***************************************************************************)
(* C1 as stated: a data call made while a token is stored sends no refresh *)
(* request when the expiry is more than 5 minutes away, and exactly one    *)
(* refresh request, completed before the resource request is sent, when    *)
(* the expiry is 5 minutes away or less.  (Refuted: a stored pair without  *)
(* a refresh token gets no refresh request.)                               *)
(***************************************************************************)
C1_AsStated ==
    [][\A p \in Reqs :
          DataArrives(p) /\ HasAccessToken(hubspotTokens) =>
             /\ ExpiryFar(hubspotTokens, now) =>
                   ~PostSent(p) /\ GetSent(p)
             /\ ExpiryNear(hubspotTokens, now) =>
                   PostSent(p) /\ ~GetSent(p)]_vars

(***************************************************************************)
(* C1, amended: a data call made while a pair with an access token is      *)
(* stored sends no refresh request when the expiry is more than 5 minutes  *)
(* away; when it is 5 minutes away or less and the pair has a refresh      *)
(* token, it sends exactly one refresh request, and its resource request   *)
(* is sent only in the step that receives the successful answer of that    *)
(* refresh; when the pair has no refresh token it sends no upstream        *)
(* request at all and answers 401.                                         *)
(***************************************************************************)
C1_ProactiveRefresh ==
    /\ [][\A p \in Reqs :
             DataArrives(p) /\ HasAccessToken(hubspotTokens) =>
                /\ ExpiryFar(hubspotTokens, now) =>
                      ~PostSent(p) /\ GetSent(p) /\ pc'[p] = "resource"
                /\ ExpiryNear(hubspotTokens, now)
                   /\ hubspotTokens.refresh_token > 0 =>
                      PostSent(p) /\ ~GetSent(p) /\ pc'[p] = "refresh"
                /\ ExpiryNear(hubspotTokens, now)
                   /\ ~(hubspotTokens.refresh_token > 0) =>
                      /\ ~PostSent(p) /\ ~GetSent(p)
                      /\ pc'[p] = "done" /\ resp'[p].status = 401]_vars
    /\ [][\A p \in Reqs :
             op[p] \in DataOps =>
                /\ ~PostSent(p)
                /\ GetSent(p) =>
                      /\ pc[p] = "refresh"
                      /\ inbox[p].kind = "ok" /\ inbox[p].access_token > 0]_vars
    /\ [](\A p \in Reqs :
             op[p] \in DataOps =>
                /\ nTokenReq[p] <= 1 /\ nResourceReq[p] <= 1
                /\ pc[p] = "refresh" => nTokenReq[p] = 1 /\ nResourceReq[p] = 0)

\* a data call that was refreshed once has its resource request in flight
C1_Witness ==
    \E p \in Reqs :
        /\ op[p] \in DataOps /\ pc[p] = "resource"
        /\ nTokenReq[p] = 1 /\ nResourceReq[p] = 1

(***************************************************************************)
(* C2: when a refresh succeeds with an answer holding access_token and     *)
(* expires_in but no refresh_token, the stored pair keeps the refresh      *)
(* token it had, takes the new access token, and expires at the refresh    *)
(* time plus the reported lifetime.  (Refuted by the code: refresh_token   *)
(* is overwritten with undefined.)                                         *)
(***************************************************************************)
C2_RefreshKeepsRefreshToken ==
    [][\A p \in Reqs :
          /\ Resumes(p, "refresh")
          /\ hubspotTokens.present /\ hubspotTokens.refresh_token > 0
          /\ inbox[p].kind = "ok" /\ inbox[p].access_token > 0
          /\ inbox[p].expires_in > 0 /\ inbox[p].refresh_token = Undef
          => /\ hubspotTokens'.present
             /\ hubspotTokens'.refresh_token = hubspotTokens.refresh_token
             /\ hubspotTokens'.access_token = inbox[p].access_token
             /\ hubspotTokens'.expiry_date
                   = now + inbox[p].expires_in * 1000]_vars

(***************************************************************************)
(* C3: when the resource request of a data call is answered 401 although   *)
(* the proactive check passed, the call does one refresh and one retry     *)
(* before it reports failure.  (Refuted by the code: the 401 goes to the   *)
(* catch block and is reported at once.)                                   *)
(***************************************************************************)
C3_ReactiveRefreshAndRetry ==
    [][\A p \in Reqs :
          /\ Resumes(p, "resource") /\ op[p] \in DataOps
          /\ nTokenReq[p] = 0
          /\ inbox[p].kind = "http_error" /\ inbox[p].status = 401
          /\ hubspotTokens.present /\ hubspotTokens.refresh_token > 0
          => PostSent(p) /\ pc'[p] # "done"]_vars

(***************************************************************************)
(* C4: refresh is single-flight: at most one refresh request is in flight  *)
(* at any time.  (Refuted by the code: nothing serializes refreshToken.)   *)
(***************************************************************************)
C4_SingleFlight ==
    Cardinality({p \in Reqs : pc[p] = "refresh"}) <= 1

(***************************************************************************)
(* C5: a data call made while the token store is empty answers 401 with    *)
(* the authorization URL, sends no upstream request of any kind, and       *)
(* leaves the store empty.                                                 *)
(***************************************************************************)
C5_EmptyStoreUnauthenticated ==
    [][\A p \in Reqs :
          DataArrives(p) /\ ~hubspotTokens.present
          => /\ pc'[p] = "done"
             /\ resp'[p].status = 401 /\ resp'[p].authUrl = "/auth/hubspot"
             /\ nTokenReq'[p] = 0 /\ nResourceReq'[p] = 0
             /\ ~hubspotTokens'.present
             /\ issued' = issued]_vars

\* a data call has been answered 401 on an empty store
C5_Witness ==
    \E p \in Reqs :
        /\ pc[p] = "done" /\ op[p] \in DataOps
        /\ resp[p].status = 401 /\ resp[p].body = "Authentication required"
        /\ ~hubspotTokens.present
        /\ nTokenReq[p] = 0 /\ nResourceReq[p] = 0

(***************************************************************************)
(* C6: when the proactive refresh of a data call fails (no refresh token,  *)
(* a non-success status or network error, or an answer without             *)
(* access_token), the call answers 401 with the re-authentication URL and  *)
(* never sends the resource request.                                       *)
(***************************************************************************)
C6_RefreshFailureUnauthenticated ==
    /\ [][\A p \in Reqs :
             \/ /\ Resumes(p, "refresh") /\ op[p] \in DataOps
                /\ RefreshAnswerFails(inbox[p])
             \/ /\ DataArrives(p) /\ hubspotTokens.present
                /\ hubspotTokens.access_token > 0
                /\ ExpiryNear(hubspotTokens, now)
                /\ ~(hubspotTokens.refresh_token > 0)
             => /\ pc'[p] = "done"
                /\ resp'[p].status = 401
                /\ resp'[p].authUrl = "/auth/hubspot"
                /\ ~GetSent(p) /\ nResourceReq'[p] = 0]_vars
    /\ [](\A p \in Reqs :
             pc[p] = "done" /\ op[p] \in DataOps /\ resp[p].status = 401
             => nResourceReq[p] = 0 /\ resp[p].authUrl = "/auth/hubspot")

\* a data call whose refresh request was answered with a failure has
\* answered 401
C6_Witness ==
    \E p \in Reqs :
        /\ pc[p] = "done" /\ op[p] \in DataOps
        /\ nTokenReq[p] = 1 /\ nResourceReq[p] = 0
        /\ resp[p].status = 401 /\ resp[p].body = "Authentication failed"

(***************************************************************************)
(* C7 as stated: when refreshes do not interleave, each refresh either     *)
(* moves the stored expiry strictly forward or, failing, leaves the stored *)
(* pair unchanged, whatever lifetime upstream reports and whenever the     *)
(* refresh is triggered.  (Refuted: a lifetime shorter than the time the   *)
(* stored token has left moves the expiry backward.)                       *)
(***************************************************************************)
C7_AsStated ==
    [][\A p \in Reqs :
          Resumes(p, "refresh") /\ hubspotTokens.present
          /\ hubspotTokens.expiry_date > 0
          => IF RefreshAnswerFails(inbox[p])
             THEN hubspotTokens' = hubspotTokens
             ELSE inbox[p].expires_in > 0
                  => hubspotTokens'.expiry_date > hubspotTokens.expiry_date]_vars

(***************************************************************************)
(* C7, amended: when refreshes do not interleave, a refresh that succeeds  *)
(* with a reported lifetime sets the stored expiry to the time of the      *)
(* refresh plus that lifetime (in milliseconds), which is strictly later   *)
(* than the previous expiry whenever the lifetime exceeds the time the     *)
(* previous token had left; a refresh that fails leaves the stored pair    *)
(* and the file unchanged.                                                 *)
(***************************************************************************)
C7_RefreshSetsExpiry ==
    [][\A p \in Reqs :
          Resumes(p, "refresh")
          => IF RefreshAnswerFails(inbox[p])
             THEN hubspotTokens' = hubspotTokens /\ file' = file
             ELSE inbox[p].expires_in > 0
                  => /\ hubspotTokens'.expiry_date
                           = now + inbox[p].expires_in * 1000
                     /\ (hubspotTokens.expiry_date > 0
                         /\ inbox[p].expires_in * 1000
                               > hubspotTokens.expiry_date - now)
                        => hubspotTokens'.expiry_date
                              > hubspotTokens.expiry_date]_vars

\* a refresh has stored an expiry earlier than the one the loaded pair had
C7_Witness ==
    \E p \in Reqs :
        /\ pc[p] \in {"resource", "retry"} /\ nTokenReq[p] = 1
        /\ hubspotTokens.present /\ hubspotTokens.access_token = 2
        /\ hubspotTokens.expiry_date > 0
        /\ hubspotTokens.expiry_date < SavedFile.expiry_date

(***************************************************************************)
(* C8: when the code exchange is answered with a success status but no     *)
(* access_token, the callback fails: nothing is written to the token store *)
(* or to the file, and the caller gets no success redirect.  (Refuted by   *)
(* the code: the answer is stored and the redirect sent.)                  *)
(***************************************************************************)
C8_MalformedExchangeFails ==
    [][\A p \in Reqs :
          Resumes(p, "exchange")
          /\ inbox[p].kind = "ok" /\ ~(inbox[p].access_token > 0)
          => /\ hubspotTokens' = hubspotTokens /\ file' = file
             /\ resp'[p].status # 302]_vars

(***************************************************************************)
(* C9 as stated: after logout the token store is empty and any persisted   *)
(* copy is removed.  (Refuted outside production already: a delete that    *)
(* throws is caught, and the file stays.)                                  *)
(***************************************************************************)
C9_AsStated ==
    [][\A p \in Reqs :
          pc[p] = "idle" /\ op'[p] = "logout" /\ ~isProduction
          => /\ ~hubspotTokens'.present
             /\ file'.state = "absent"
             /\ resp'[p].status = 200]_vars

(***************************************************************************)
(* C9, amended: after logout the token store is empty; the persisted copy  *)
(* is removed when the process is not in production and the delete does    *)
(* not throw, and is otherwise left as it was; logout answers success from *)
(* every state; a data call made next answers 401; a logout that follows a *)
(* logout changes nothing.                                                 *)
(***************************************************************************)
C9_Logout ==
    /\ [][\A p \in Reqs :
             pc[p] = "idle" /\ op'[p] = "logout"
             => /\ hubspotTokens' = NullTokens
                /\ file' = IF ~isProduction /\ fsWritable THEN NoFile
                           ELSE file
                /\ pc'[p] = "done" /\ resp'[p].status = 200
                /\ (~hubspotTokens.present
                    /\ (file.state = "absent" \/ isProduction \/ ~fsWritable))
                   => hubspotTokens' = hubspotTokens /\ file' = file]_vars
    /\ [](\A p \in Reqs :
             pc[p] = "done" /\ op[p] = "logout" => ~hubspotTokens.present)
    /\ [][\A p \in Reqs :
             DataArrives(p) /\ hubspotTokens = NullTokens
             => pc'[p] = "done" /\ resp'[p].status = 401]_vars

\* a logout has emptied a store that held a pair, and removed its file
C9_Witness ==
    \E p \in Reqs :
        /\ pc[p] = "done" /\ op[p] = "logout" /\ resp[p].status = 200
        /\ ~hubspotTokens.present /\ file.state = "absent"
        /\ ~isProduction /\ fsWritable /\ issued > 1

(***************************************************************************)
(* C10: a callback without an authorization code answers 400, makes no     *)
(* call to the token endpoint, and leaves the token store and the file as  *)
(* they were.                                                              *)
(***************************************************************************)
C10_MissingCode ==
    [][\A p \in Reqs :
          pc[p] = "idle" /\ op'[p] = "callback" /\ query'[p] # "code"
          => /\ pc'[p] = "done" /\ resp'[p].status = 400
             /\ nTokenReq'[p] = 0 /\ nResourceReq'[p] = 0
             /\ issued' = issued
             /\ hubspotTokens' = hubspotTokens /\ file' = file]_vars

\* a callback without a code has been answered 400 while a pair is stored
C10_Witness ==
    \E p \in Reqs :
        /\ pc[p] = "done" /\ op[p] = "callback" /\ query[p] = ""
        /\ resp[p].status = 400 /\ nTokenReq[p] = 0
        /\ hubspotTokens.present

(***************************************************************************)
(* C11: refreshToken called when the slot is empty or the stored pair has  *)
(* no refresh token fails at once: no request goes to the token endpoint,  *)
(* the slot and the file stay as they were, and the caller reports the     *)
(* failure.  refreshToken is called by a data call whose token is near its *)
(* expiry and by the debug call whose test request was answered 401.       *)
(***************************************************************************)
C11_RefreshWithoutRefreshToken ==
    [][\A p \in Reqs :
          /\ ~hubspotTokens.present \/ ~(hubspotTokens.refresh_token > 0)
          /\ \/ /\ DataArrives(p)
                /\ hubspotTokens.present /\ hubspotTokens.access_token > 0
                /\ ExpiryNear(hubspotTokens, now)
             \/ /\ Resumes(p, "resource") /\ op[p] = "debug"
                /\ inbox[p].kind = "http_error" /\ inbox[p].status = 401
          => /\ ~PostSent(p) /\ nTokenReq'[p] = 0
             /\ hubspotTokens' = hubspotTokens /\ file' = file
             /\ issued' = issued
             /\ pc'[p] = "done"
             /\ IF op'[p] = "debug" THEN resp'[p].upstream = 401
                ELSE resp'[p].status = 401]_vars

\* the debug call has reported the 401 of its test request without a
\* refresh request, the slot having been emptied while the request was out
C11_Witness ==
    \E p \in Reqs :
        /\ pc[p] = "done" /\ op[p] = "debug" /\ resp[p].upstream = 401
        /\ nResourceReq[p] = 1 /\ nTokenReq[p] = 0
        /\ ~hubspotTokens.present

Restarts ==
    /\ \A q \in Reqs : pc[q] = "idle" /\ pc'[q] = "idle"
    /\ now' = now /\ hubspotTokens' # hubspotTokens

(***************************************************************************)
(* C13: round trip across a restart.  With persistence available (not in   *)
(* production, writes succeed) a pair stored by a successful exchange or   *)
(* refresh is, after a restart, in the slot again with the same access     *)
(* token, refresh token and expiry; in production, or with the file        *)
(* missing or unparsable, the restart leaves the slot empty.  (Refuted by  *)
(* the code: an answer without expires_in is stored with expiry NaN, which *)
(* JSON.stringify writes as null, and null is what the restart loads.)     *)
(***************************************************************************)
C13_RestartRoundTrip ==
    [][Restarts =>
          /\ ~isProduction /\ fsWritable
             /\ hubspotTokens.present /\ hubspotTokens.access_token > 0
             => /\ hubspotTokens'.present
                /\ hubspotTokens'.access_token = hubspotTokens.access_token
                /\ hubspotTokens'.refresh_token = hubspotTokens.refresh_token
                /\ hubspotTokens'.expiry_date = hubspotTokens.expiry_date
          /\ isProduction \/ file.state # "json"
             => hubspotTokens' = NullTokens]_vars

(***************************************************************************)
(* C14: a write or delete of the token file that throws never fails the    *)
(* operation and never changes its in-memory result.  With the file system *)
(* refusing writes: a successful exchange still stores the new pair and    *)
(* answers the success redirect; a successful refresh still stores the new *)
(* pair and lets its caller go on with the new access token; a logout      *)
(* still empties the slot and answers success.  The file stays as it was.  *)
(***************************************************************************)
C14_PersistenceFailureNotFatal ==
    [][\A p \in Reqs :
          ~isProduction /\ ~fsWritable
          => /\ Resumes(p, "exchange")
                /\ inbox[p].kind = "ok" /\ inbox[p].access_token > 0
                => /\ hubspotTokens'.present
                   /\ hubspotTokens'.access_token = inbox[p].access_token
                   /\ hubspotTokens'.refresh_token = inbox[p].refresh_token
                   /\ pc'[p] = "done" /\ resp'[p].status = 302
                   /\ file' = file
             /\ Resumes(p, "refresh") /\ ~RefreshAnswerFails(inbox[p])
                => /\ hubspotTokens'.present
                   /\ hubspotTokens'.access_token = inbox[p].access_token
                   /\ GetSent(p) /\ pc'[p] \in {"resource", "retry"}
                   /\ bearer'[p] = inbox[p].access_token
                   /\ file' = file
             /\ pc[p] = "idle" /\ op'[p] = "logout"
                => /\ hubspotTokens' = NullTokens
                   /\ pc'[p] = "done" /\ resp'[p].status = 200
                   /\ file' = file]_vars

\* an exchange has succeeded although its pair could not be written
C14_Witness ==
    \E p \in Reqs :
        /\ ~isProduction /\ ~fsWritable
        /\ pc[p] = "done" /\ op[p] = "callback" /\ resp[p].status = 302
        /\ hubspotTokens.present /\ hubspotTokens.access_token = 2
        /\ file.state = "absent"

(***************************************************************************)
(* C15: a successful exchange replaces the slot wholesale: afterwards the  *)
(* slot holds the access token and the refresh token of the answer (none,  *)
(* if the answer has none), the expiry is the time of the exchange plus    *)
(* the reported lifetime, and nothing of the pair stored before is left.   *)
(***************************************************************************)
C15_ExchangeReplacesPair ==
    [][\A p \in Reqs :
          Resumes(p, "exchange")
          /\ inbox[p].kind = "ok" /\ inbox[p].access_token > 0
          => /\ hubspotTokens'.present
             /\ hubspotTokens'.access_token = inbox[p].access_token
             /\ hubspotTokens'.refresh_token = inbox[p].refresh_token
             /\ hubspotTokens'.expires_in = Undef
             /\ inbox[p].expires_in > 0
                => hubspotTokens'.expiry_date
                      = now + inbox[p].expires_in * 1000
             /\ pc'[p] = "done" /\ resp'[p].status = 302]_vars

\* an exchange has put a pair of its own, without refresh token and without
\* expires_in, in the place of the pair the file still shows
C15_Witness ==
    \E p \in Reqs :
        /\ pc[p] = "done" /\ op[p] = "callback" /\ resp[p].status = 302
        /\ hubspotTokens.present /\ hubspotTokens.access_token = 2
        /\ hubspotTokens.refresh_token = Undef
        /\ hubspotTokens.expires_in = Undef
        /\ ~isProduction /\ ~fsWritable /\ file = SavedFile

(***************************************************************************)
(* C16: the token-status query answers hasToken true exactly when the slot *)
(* is not empty; isExpired true exactly when there is no token, no expiry, *)
(* or the time is at or past the stored expiry; and the action             *)
(* "authentication needed" without a token, "refresh needed" with a token  *)
(* and isExpired, "token valid" otherwise.  It changes neither the slot    *)
(* nor the file and sends nothing upstream.                                *)
(***************************************************************************)
C16_CheckToken ==
    [][\A p \in Reqs :
          pc[p] = "idle" /\ op'[p] = "check-token"
          => /\ pc'[p] = "done" /\ resp'[p].status = 200
             /\ resp'[p].hasToken = hubspotTokens.present
             /\ resp'[p].isExpired
                   = (\/ ~hubspotTokens.present
                      \/ ~(hubspotTokens.expiry_date > 0)
                      \/ now >= hubspotTokens.expiry_date)
             /\ resp'[p].body
                   = (IF ~hubspotTokens.present THEN "authentication needed"
                      ELSE IF resp'[p].isExpired THEN "refresh needed"
                      ELSE "token valid")
             /\ hubspotTokens' = hubspotTokens /\ file' = file
             /\ nTokenReq'[p] = 0 /\ nResourceReq'[p] = 0
             /\ issued' = issued]_vars

\* the query has answered "refresh needed" for a pair whose expiry has
\* passed, and the pair is still in the slot
C16_Witness ==
    \E p \in Reqs :
        /\ pc[p] = "done" /\ op[p] = "check-token"
        /\ resp[p].hasToken /\ resp[p].isExpired
        /\ resp[p].body = "refresh needed"
        /\ hubspotTokens.present /\ hubspotTokens.expiry_date > 0
        /\ now >= hubspotTokens.expiry_date

\* the routes of C17: the callback, the logout and the data routes
AnsweredOps == {"callback", "logout"} \cup DataOps

(***************************************************************************)
(* C17: every request to the callback, the logout and the data routes gets *)
(* exactly one response, whatever upstream answers.  A handler ends only   *)
(* by sending a response, and sends none before it ends or after; every    *)
(* upstream answer delivered to a handler makes it respond or send its     *)
(* next upstream request, an upstream failure making it respond with a 401 *)
(* or a 500; and under the fairness of SpecLive every such request that    *)
(* has arrived is eventually answered.                                     *)
(***************************************************************************)
C17_ExactlyOneResponse ==
    /\ [](\A p \in Reqs :
             op[p] \in AnsweredOps
             => (pc[p] = "done") = (resp[p] # NoResponse))
    /\ [][\A p \in Reqs :
             /\ op[p] \in AnsweredOps /\ resp[p] # NoResponse
                => resp'[p] \in {resp[p], NoResponse}
             /\ op[p] \in AnsweredOps /\ pc[p] # "idle" /\ inbox[p] # NoAnswer
                /\ inbox'[p] = NoAnswer
                => /\ \/ pc'[p] = "done" /\ resp'[p].status \in {200, 302,
                                                                 401, 500}
                      \/ pc[p] = "refresh" /\ pc'[p] = "resource"
                   /\ inbox[p].kind # "ok"
                      => pc'[p] = "done" /\ resp'[p].status \in {401, 500}]_vars
    /\ \A p \in Reqs :
          (op[p] \in AnsweredOps /\ pc[p] # "idle") ~> (pc[p] = "done")

\* a data call whose resource request failed in the network has answered
\* the 500
C17_Witness ==
    \E p \in Reqs :
        /\ pc[p] = "done" /\ op[p] \in DataOps
        /\ nResourceReq[p] = 1 /\ resp[p].status = 500
        /\ resp[p].upstream = Undef

(***************************************************************************)
(* C18: a refresh that fails after its request went upstream (a            *)
(* non-success status, a network error, or a 2xx answer without            *)
(* access_token) leaves the slot and the file exactly as they were, and    *)
(* sends no second request to the token endpoint: its caller reports the   *)
(* failure.                                                                *)
(***************************************************************************)
C18_FailedRefreshChangesNothing ==
    /\ [][\A p \in Reqs :
             Resumes(p, "refresh") /\ RefreshAnswerFails(inbox[p])
             => /\ hubspotTokens' = hubspotTokens /\ file' = file
                /\ ~PostSent(p) /\ ~GetSent(p)
                /\ pc'[p] = "done"]_vars
    /\ [](\A p \in Reqs : nTokenReq[p] <= 1)

\* the debug call has reported a refresh that failed, and the pair loaded
\* at the start is still in the slot and in the file
C18_Witness ==
    \E p \in Reqs :
        /\ pc[p] = "done" /\ op[p] = "debug"
        /\ nTokenReq[p] = 1 /\ nResourceReq[p] = 1
        /\ hubspotTokens = Parse(SavedFile) /\ file = SavedFile

(***************************************************************************)
(* C19: logout is final under interleaving: when a logout or a forced      *)
(* re-authentication has emptied the slot while a refresh started earlier  *)
(* was awaiting its answer, the slot is still empty when that refresh      *)
(* completes.  A refresh starts only from a slot that holds a pair, so a   *)
(* refresh that resumes on an empty slot is one that a logout or a forced  *)
(* re-authentication has overtaken.  (Refuted by the code: the refresh     *)
(* stores the pair of its answer whatever the slot holds by then.)         *)
(***************************************************************************)
C19_LogoutFinal ==
    [][\A p \in Reqs :
          Resumes(p, "refresh") /\ ~hubspotTokens.present
          => ~hubspotTokens'.present /\ file' = file]_vars

\* the file agrees with the slot: it is absent exactly when the slot is
\* empty, and otherwise holds the access token, the refresh token and the
\* expiry of the pair in the slot
Agrees(tok, f) ==
    IF tok.present
    THEN /\ f.state = "json"
         /\ f.access_token = tok.access_token
         /\ f.refresh_token = tok.refresh_token
         /\ f.expiry_date = tok.expiry_date
    ELSE f.state = "absent"

(***************************************************************************)
(* C20: with persistence available and reliable (not in production, file   *)
(* operations succeed), after every completed exchange, refresh, logout or *)
(* forced re-authentication, under any interleaving of the handlers, the   *)
(* file agrees with the slot.  (Refuted by the code: a forced              *)
(* re-authentication on an empty slot leaves an existing file in place,    *)
(* and a pair stored with expiry NaN is written with expiry null.)         *)
(***************************************************************************)
C20_FileAgreesWithStore ==
    [][\A p \in Reqs :
          /\ ~isProduction /\ fsWritable
          /\ \/ Resumes(p, "exchange") /\ inbox[p].kind = "ok"
             \/ Resumes(p, "refresh") /\ ~RefreshAnswerFails(inbox[p])
             \/ pc[p] = "idle" /\ op'[p] = "logout"
             \/ pc[p] = "idle" /\ op'[p] = "auth" /\ query'[p] = "force"
          => Agrees(hubspotTokens', file')]_vars

(***************************************************************************)
(* C21: the Bearer credential of the resource request of a data call is    *)
(* the access token in the slot at the moment the request is sent: the     *)
(* stored token when no refresh was needed, and after a successful         *)
(* proactive refresh the access token of the refresh answer (which the     *)
(* slot then holds), under any interleaving with handlers that write the   *)
(* slot.                                                                   *)
(***************************************************************************)
C21_BearerIsCurrentToken ==
    [][\A p \in Reqs :
          op'[p] \in DataOps /\ GetSent(p)
          => /\ hubspotTokens'.present
             /\ bearer'[p] > 0
             /\ bearer'[p] = hubspotTokens'.access_token
             /\ pc[p] = "idle"
                => bearer'[p] = hubspotTokens.access_token
             /\ pc[p] = "refresh"
                => bearer'[p] = inbox[p].access_token]_vars

\* a data call that was refreshed has sent its resource request with the
\* new access token, not the one loaded at the start
C21_Witness ==
    \E p \in Reqs :
        /\ op[p] \in DataOps /\ pc[p] = "resource"
        /\ nTokenReq[p] = 1 /\ bearer[p] = 2
        /\ hubspotTokens.access_token = 2
        /\ file.access_token = 1

\* a fresh, valid pair: an access token, a refresh token, and an expiry more
\* than the margin away
Usable(tok, t) ==
    /\ tok.present /\ tok.access_token > 0 /\ tok.refresh_token > 0
    /\ ExpiryFar(tok, t)

(***************************************************************************)
(* C22: with single-use, rotating refresh tokens upstream, a data call     *)
(* whose refresh raced with the refresh of another data call never answers *)
(* 401 while the slot holds the fresh, valid pair the other refresh has    *)
(* stored.  The case: request q has refreshed, sent its resource request   *)
(* with the token now in the slot, and that pair is more than the margin   *)
(* from its expiry; request p gets the answer of its own refresh.  Since   *)
(* the pair in the slot would not have sent p to refresh, p started its    *)
(* refresh before q's was stored, with the refresh token q's refresh used  *)
(* up: upstream has to reject it.  (Refuted by the code: p answers 401 on  *)
(* its own failed refresh without looking at the slot.)                    *)
(***************************************************************************)
C22_NoUnauthenticatedBesideFreshPair ==
    [][\A p \in Reqs :
          /\ op[p] \in DataOps /\ Resumes(p, "refresh")
          /\ \E q \in Reqs \ {p} :
                /\ op[q] \in DataOps /\ pc[q] = "resource"
                /\ nTokenReq[q] = 1
                /\ bearer[q] = hubspotTokens.access_token
          /\ Usable(hubspotTokens, now)
          => ~(pc'[p] = "done" /\ resp'[p].status = 401)]_vars

====
